---- MODULE Spec2Model ----
(***************************************************************************)
(* State-machine model of web/app.go (package web of zepto): application   *)
(* construction, route registration, middleware composition, request       *)
(* dispatch with panic/error recovery, and the start-up lifecycle.         *)
(*                                                                         *)
(* Text is modelled as a sequence of one-character strings.  Paths are     *)
(* sequences of segments ("/widgets/{id}" is <<"widgets", "{id}">>, a      *)
(* trailing slash is an empty last segment).                               *)
(***************************************************************************)
EXTENDS Integers, Sequences, FiniteSets, TLC

VARIABLES
    phase,       \* lifecycle reached by the calls made so far (ghost)
    environ,     \* the process environment: value of SESSION_SECRET
    opts,        \* App.opts: env, sessionStore, webpackEnabled
    log,         \* calls made on opts.logger, in order
    tmplEngine,  \* App.tmplEngine: its initialisation state
    middleware,  \* App.middleware: MiddlewareStack{stack, skips}
    routers,     \* App.routers: attached sub-routers, not yet materialised
    muxRouter,   \* App.muxRouter: the routes, in registration order
    bundler,     \* the background asset-bundler task
    reqs,        \* invocations of generated route functions, by slot
    contexts     \* the Context objects that are referenced, by identity

vars == <<phase, environ, opts, log, tmplEngine, middleware, routers,
          muxRouter, bundler, reqs, contexts>>

----------------------------------------------------------------------------
(* Bounds                                                                  *)

\* requests the HTTP server runs at the same time
MaxReq == 2
\* middleware functions the application may register with Use
NumMw == 2
\* routes registered directly through HandleMethod in one behaviour
MaxRoutes == 2
\* Resource calls in one behaviour
MaxResources == 2
\* skip rules added in one behaviour
MaxSkips == 2
\* length of the texts the formatting functions are applied to
MaxMsgLen == 3
\* calls of Init (directly or through Start) in one behaviour
MaxInits == 2
MaxLines == 1
\* sub-routers attached to the application
MaxRouters == 1

----------------------------------------------------------------------------
(* Text and panic values                                                   *)

Alphabet == {"a", "%"}

RECURSIVE TextsOfLen(_)
TextsOfLen(n) ==
    IF n = 0 THEN {<<>>}
    ELSE {<<c>> \o t : c \in Alphabet, t \in TextsOfLen(n - 1)}

Texts == UNION {TextsOfLen(n) : n \in 0..MaxMsgLen}

\* the texts user handlers of the request model fail with
Msgs == {<<"a">>, <<"a", "%">>}

\* fmt.Errorf(format) with no operands.  "%%" prints "%"; "%" followed by a
\* verb character prints "%!c(MISSING)"; a lone "%" at the end prints
\* "%!(NOVERB)".  Exact for formats over Alphabet and the braces of Sprint
\* (no flag, width or index characters follow a "%").
RECURSIVE Errorf(_)
Errorf(format) ==
    IF format = <<>> THEN <<>>
    ELSE IF Head(format) # "%" THEN <<Head(format)>> \o Errorf(Tail(format))
    ELSE IF Len(format) = 1
         THEN <<"%", "!", "(", "N", "O", "V", "E", "R", "B", ")">>
    ELSE IF format[2] = "%"
         THEN <<"%">> \o Errorf(SubSeq(format, 3, Len(format)))
    ELSE <<"%", "!", format[2], "(", "M", "I", "S", "S", "I", "N", "G", ")">>
         \o Errorf(SubSeq(format, 3, Len(format)))

\* Values a handler can panic with (recover() returns them as interface{}):
\* an error, a string, an int, or a struct with one string field.
ErrorValue(m)  == [kind |-> "error",  text |-> m]
StringValue(m) == [kind |-> "string", text |-> m]
IntValue       == [kind |-> "int",    text |-> <<"7">>]
StructValue(m) == [kind |-> "struct", text |-> m]

PanicValues ==
    {ErrorValue(m) : m \in Msgs} \cup {StringValue(m) : m \in Msgs}
        \cup {IntValue} \cup {StructValue(<<"%">>)}

\* fmt.Sprint(v): the default text form of a value that is neither an error
\* nor a string ("7" for the int, "{s}" for the struct).
Sprint(v) ==
    IF v.kind = "struct" THEN <<"{">> \o v.text \o <<"}">> ELSE v.text

\* The text a reader expects of a panic value: err.Error(), the string
\* itself, or the default text form.
TextOf(v) ==
    IF v.kind \in {"error", "string"} THEN v.text ELSE Sprint(v)

\* The type switch of the panic guard: the message of the error e that is
\* handed to HandleError.
Normalize(r) ==
    CASE r.kind = "error"  -> r.text
      [] r.kind = "string" -> Errorf(r.text)
      [] OTHER             -> Errorf(Sprint(r))

----------------------------------------------------------------------------
(* The response writer (net/http): the first status written is the one the *)
(* client receives; a later WriteHeader is a superfluous call that changes *)
(* nothing; a Write with no status yet sends 200 first.                    *)

NewResponse == [status |-> 0, calls |-> <<>>, body |-> <<>>]

WriteHeader(res, code) ==
    [res EXCEPT !.calls  = Append(@, [op |-> "WriteHeader", code |-> code]),
                !.status = IF @ = 0 THEN code ELSE @]

Write(res, data) ==
    [res EXCEPT !.calls  = Append(@, [op |-> "Write", code |-> 0]),
                !.status = IF @ = 0 THEN 200 ELSE @,
                !.body   = Append(@, data)]

\* how many status writes were attempted on a response
RECURSIVE CountHeaderCalls(_)
CountHeaderCalls(calls) ==
    IF calls = <<>> THEN 0
    ELSE (IF Head(calls).op = "WriteHeader" THEN 1 ELSE 0)
         + CountHeaderCalls(Tail(calls))

\* renderer.RenderDevelopmentError: writes the diagnostic page, which shows
\* the error's message.
RenderDevelopmentError(res, msg) ==
    Write(res, [kind |-> "diagnostic", text |-> msg])

\* HandleError testing for "production" instead of "development"
HandleErrorUnlessProduction(env, res, msg) ==
    IF env # "production"
    THEN RenderDevelopmentError(WriteHeader(res, 500), msg)
    ELSE WriteHeader(res, 500)

\* App.HandleError(res, req, err), with err given by its message.
HandleError(env, res, msg) ==
    IF env = "development"
    THEN RenderDevelopmentError(WriteHeader(res, 500), msg)
    ELSE WriteHeader(res, 500)

----------------------------------------------------------------------------
(* Handlers, middleware and the composed chain                             *)

\* A RouteHandler is named by its owner (the application or a resource) and
\* its function.
Handler(owner, fn) == [owner |-> owner, fn |-> fn]
NoHandler     == Handler("", "")
StaticHandler == Handler("http", "FileServer")

NoValue == [kind |-> "none", text |-> <<>>]
NilResult      == [kind |-> "nil",   val |-> NoValue]
ErrResult(m)   == [kind |-> "err",   val |-> ErrorValue(m)]
PanicResult(v) == [kind |-> "panic", val |-> v]

\* What a user handler does with one request: it may write a 200 page to
\* the response, and then returns nil, returns an error, or panics.
Behaviours ==
    [writes : BOOLEAN,
     result : {NilResult} \cup {ErrResult(m) : m \in Msgs}
                  \cup {PanicResult(v) : v \in PanicValues}]

\* The handler "boom" of the application may do any of these; every other
\* handler answers 200 and returns nil.
HandlerBehaviours(h) ==
    IF h = Handler("app", "boom") THEN Behaviours
    ELSE {[writes |-> TRUE, result |-> NilResult]}

Mws == 1..NumMw

\* MiddlewareStack.Use(mw...): appends to the ordered list.
StackUse(ms, mws) == [ms EXCEPT !.stack = @ \o mws]

\* A skip rule: middleware m is skipped for handler h.
StackSkip(ms, m, h) == [ms EXCEPT !.skips = @ \cup {<<m, h>>}]

\* MiddlewareStack.handle(h): starting from the terminal handler, wraps it
\* with each middleware in reverse registration order, leaving out the ones
\* with a skip rule for h.  The result lists the wrappers outermost first.
RECURSIVE WrapFrom(_, _, _, _)
WrapFrom(ms, h, i, inner) ==
    IF i = 0 THEN inner
    ELSE WrapFrom(ms, h, i - 1,
                  IF <<ms.stack[i], h>> \in ms.skips THEN inner
                  ELSE <<ms.stack[i]>> \o inner)

handle(ms, h) == WrapFrom(ms, h, Len(ms.stack), <<>>)

Event(ev, who) == [ev |-> ev, who |-> who]

\* The terminal user handler on a request.
Terminal(h, beh, run) ==
    [trace |-> Append(run.trace, Event("handler", 0)),
     res   |-> IF beh.writes
               THEN Write(WriteHeader(run.res, 200),
                          [kind |-> "page", text |-> <<>>])
               ELSE run.res,
     out   |-> beh.result]

\* Calling a composed handler: each wrapper does its work on the way in,
\* calls the handler it wraps, does its work on the way out and returns the
\* inner error unchanged; a panic unwinds through it.
RECURSIVE Invoke(_, _, _, _)
Invoke(chain, h, beh, run) ==
    IF chain = <<>> THEN Terminal(h, beh, run)
    ELSE LET pre   == [run EXCEPT !.trace = Append(@, Event("pre", Head(chain)))]
             inner == Invoke(Tail(chain), h, beh, pre)
         IN  IF inner.out.kind = "panic" THEN inner
             ELSE [inner EXCEPT !.trace = Append(@, Event("post", Head(chain)))]

----------------------------------------------------------------------------
(* Routes and the path router (gorilla/mux): routes are tried in           *)
(* registration order and the first one whose path and method match wins.  *)

Route(methods, path, h) ==
    [methods |-> methods, anyMethod |-> FALSE, path |-> path,
     prefix |-> FALSE, handler |-> h]

\* PathPrefix("/public/").Handler(FileServer): any method.
StaticRoute ==
    [methods |-> {}, anyMethod |-> TRUE, path |-> <<"public">>,
     prefix |-> TRUE, handler |-> StaticHandler]

\* A "{id}" segment of a path template matches one non-empty segment.
SegmentMatches(t, seg) == IF t = "{id}" THEN seg # "" ELSE t = seg

PathMatches(route, path) ==
    IF route.prefix
    THEN /\ Len(path) > Len(route.path)
         /\ SubSeq(path, 1, Len(route.path)) = route.path
    ELSE /\ Len(path) = Len(route.path)
         /\ \A k \in 1..Len(path) : SegmentMatches(route.path[k], path[k])

RouteMatches(route, method, path) ==
    /\ PathMatches(route, path)
    /\ route.anyMethod \/ method \in route.methods

\* mux.Router.Match: the index of the first matching route, 0 if none.
Match(routes, method, path) ==
    LET hits == {k \in 1..Len(routes) : RouteMatches(routes[k], method, path)}
    IN  IF hits = {} THEN 0 ELSE CHOOSE k \in hits : \A j \in hits : k <= j

\* path.Join(path, "/{id}"): joins and cleans, which drops empty segments.
RECURSIVE Clean(_)
Clean(path) ==
    IF path = <<>> THEN <<>>
    ELSE IF Head(path) = "" THEN Clean(Tail(path))
    ELSE <<Head(path)>> \o Clean(Tail(path))

Join(path, elem) == Clean(path \o elem)

----------------------------------------------------------------------------
(* Construction                                                            *)

Envs == {"development", "production", "staging"}

NoStore        == [kind |-> "nil", secret |-> ""]
CustomStore    == [kind |-> "custom", secret |-> ""]
CookieStore(s) == [kind |-> "cookie", secret |-> s]

LogCall(level) == [level |-> level]

\* A Context: the response writer and request it is bound to (named by the
\* invocation the server passed them to), its Cookies and its Session.
NoContext ==
    [res |-> 0, req |-> 0, cookies |-> [res |-> 0, req |-> 0],
     session |-> [gSession |-> "", res |-> 0, req |-> 0]]

\* the identity of a Context object; NoRef refers to none
Ref(n) == [obj |-> n]
NoRef  == Ref(0)

NoContexts == [r \in {} |-> NoContext]

NoRequest ==
    [pc |-> "idle", method |-> "", path |-> <<>>, handler |-> NoHandler,
     beh |-> [writes |-> FALSE, result |-> NilResult],
     trace |-> <<>>, res |-> NewResponse, chainRes |-> NewResponse,
     heCalls |-> <<>>, ctx |-> NoRef, saw |-> NoContext]

Live == {"Configured", "Initialized", "Serving"}

\* setupSession going on after the missing secret in production
SetupSessionNoFatal(env, store, secretVar) ==
    IF store.kind # "nil"
    THEN [fatal |-> FALSE, store |-> store, log |-> <<>>]
    ELSE IF secretVar # ""
    THEN [fatal |-> FALSE, store |-> CookieStore(secretVar), log |-> <<>>]
    ELSE IF env = "development"
    THEN [fatal |-> FALSE, store |-> CookieStore("development-secret"),
          log |-> <<LogCall("warn")>>]
    ELSE [fatal |-> FALSE, store |-> CookieStore(""), log |-> <<>>]

\* the secret looked up whether or not a store was supplied
SetupSessionSecretFirst(env, store, secretVar) ==
    IF secretVar # ""
    THEN [fatal |-> FALSE, store |-> CookieStore(secretVar), log |-> <<>>]
    ELSE IF env = "production"
    THEN [fatal |-> TRUE, store |-> store, log |-> <<LogCall("fatal")>>]
    ELSE IF env = "development"
    THEN [fatal |-> FALSE, store |-> CookieStore("development-secret"),
          log |-> <<LogCall("warn")>>]
    ELSE [fatal |-> FALSE, store |-> CookieStore(""), log |-> <<>>]

\* App.setupSession: the store and the logger calls it leaves, or a fatal
\* exit of the process (logger.Fatalf).
SetupSession(env, store, secretVar) ==
    IF store.kind # "nil"
    THEN [fatal |-> FALSE, store |-> store, log |-> <<>>]
    ELSE IF secretVar # ""
    THEN [fatal |-> FALSE, store |-> CookieStore(secretVar), log |-> <<>>]
    ELSE IF env = "production"
    THEN [fatal |-> TRUE, store |-> store, log |-> <<LogCall("fatal")>>]
    ELSE IF env = "development"
    THEN [fatal |-> FALSE, store |-> CookieStore("development-secret"),
          log |-> <<LogCall("warn")>>]
    ELSE [fatal |-> FALSE, store |-> CookieStore(""), log |-> <<>>]

\* NewApp(opts...): the options give the environment, optionally a session
\* store, and the bundler flag.
NewApp(env, store, webpackEnabled) ==
    /\ phase = "Unconfigured"
    /\ LET s == SetupSession(env, store, environ)
       IN  /\ opts' = [env |-> env, sessionStore |-> s.store,
                       webpackEnabled |-> webpackEnabled]
           /\ log' = log \o s.log
           /\ phase' = IF s.fatal THEN "Fatal" ELSE "Configured"
    /\ muxRouter' = <<StaticRoute>>
    /\ middleware' = [stack |-> <<>>, skips |-> {}]
    /\ routers' = <<>>
    /\ UNCHANGED <<environ, tmplEngine, bundler, reqs,
                   contexts>>

----------------------------------------------------------------------------
(* Registration                                                            *)

\* App.Use(mw...)
Use(mws) ==
    /\ phase \in Live
    /\ middleware' = StackUse(middleware, mws)
    /\ UNCHANGED <<phase, environ, opts, log, tmplEngine, routers, muxRouter,
                   bundler, reqs,
                   contexts>>

\* a skip rule added to the middleware stack
Skip(m, h) ==
    /\ phase \in Live
    /\ middleware' = StackSkip(middleware, m, h)
    /\ UNCHANGED <<phase, environ, opts, log, tmplEngine, routers, muxRouter,
                   bundler, reqs,
                   contexts>>

\* muxRouter.HandleFunc(path, generated function).Methods(methods...)
Registered(routes, methods, path, h) == Append(routes, Route(methods, path, h))

\* App.HandleMethod(methods, path, routeHandler)
HandleMethod(methods, path, h) ==
    /\ phase \in Live
    /\ muxRouter' = Registered(muxRouter, methods, path, h)
    /\ UNCHANGED <<phase, environ, opts, log, tmplEngine, middleware, routers,
                   bundler, reqs,
                   contexts>>

Get(path, h)    == HandleMethod({"GET"}, path, h)
Post(path, h)   == HandleMethod({"POST"}, path, h)
Put(path, h)    == HandleMethod({"PUT"}, path, h)
Delete(path, h) == HandleMethod({"DELETE"}, path, h)
Patch(path, h)  == HandleMethod({"PATCH"}, path, h)
\* App.Any (the name Any is taken by the TLC module)
AppAny(path, h) == HandleMethod({"GET", "POST", "PUT", "DELETE", "PATCH"},
                                path, h)

\* Resource binding GET path/{id} to List and GET path to Show
ResourceRoutesSwapped(routes, path, r) ==
    LET id_path == Join(path, <<"{id}">>)
        r1 == Registered(routes, {"GET"}, id_path, Handler(r, "List"))
        r2 == Registered(r1, {"GET"}, path, Handler(r, "Show"))
        r3 == Registered(r2, {"POST"}, path, Handler(r, "Create"))
        r4 == Registered(r3, {"PUT"}, id_path, Handler(r, "Update"))
    IN  Registered(r4, {"DELETE"}, id_path, Handler(r, "Destroy"))

\* The five routes of App.Resource(path, resource), in the order it
\* registers them.
ResourceRoutes(routes, path, r) ==
    LET id_path == Join(path, <<"{id}">>)
        r1 == Registered(routes, {"GET"}, path, Handler(r, "List"))
        r2 == Registered(r1, {"GET"}, id_path, Handler(r, "Show"))
        r3 == Registered(r2, {"POST"}, path, Handler(r, "Create"))
        r4 == Registered(r3, {"PUT"}, id_path, Handler(r, "Update"))
    IN  Registered(r4, {"DELETE"}, id_path, Handler(r, "Destroy"))

\* App.Resource(path, resource)
Resource(path, r) ==
    /\ phase \in Live
    /\ muxRouter' = ResourceRoutes(muxRouter, path, r)
    /\ UNCHANGED <<phase, environ, opts, log, tmplEngine, middleware, routers,
                   bundler, reqs,
                   contexts>>

\* A sub-router is attached to the application: it is added to App.routers
\* and its routes wait there for Init.
AttachRouter(router) ==
    /\ phase \in Live
    /\ routers' = Append(routers, router)
    /\ UNCHANGED <<phase, environ, opts, log, tmplEngine, middleware,
                   muxRouter, bundler, reqs, contexts>>

----------------------------------------------------------------------------
(* Initialisation and start                                                *)

\* initRouterHandlers for every attached sub-router: its routes are
\* registered with the path router.
RECURSIVE Materialised(_, _)
Materialised(routes, rs) ==
    IF rs = <<>> THEN routes
    ELSE Materialised(routes \o Head(rs), Tail(rs))

\* The body of App.Init: the sub-routers are materialised, then the template
\* engine's Init runs and either succeeds or returns an error, which Init
\* turns into a panic.
InitBody(ok) ==
    /\ phase \in Live
    /\ tmplEngine.inits < MaxInits
    /\ muxRouter' = Materialised(muxRouter, routers)
    /\ tmplEngine' = [state |-> IF ok THEN "ready" ELSE "failed",
                      inits |-> tmplEngine.inits + 1]

\* App.Init()
Init(ok) ==
    /\ InitBody(ok)
    /\ phase' = IF ~ok THEN "Panicked"
                ELSE IF phase = "Serving" THEN "Serving" ELSE "Initialized"
    /\ UNCHANGED <<environ, opts, log, middleware, routers, bundler, reqs,
                   contexts>>

\* the bundler process launched whatever the environment
StartBundlerAnyEnv(env, enabled, b) ==
    IF enabled
    THEN [b EXCEPT !.webpack = IF env = "development" THEN "dev" ELSE "prod",
                   !.task = "launched"]
    ELSE b

\* Lines 111-122 of App.Start: webpack.Init(dev) when the bundler is
\* enabled, and in development startWebpack launched as a goroutine.
StartBundler(env, enabled, b) ==
    IF enabled
    THEN [b EXCEPT !.webpack = IF env = "development" THEN "dev" ELSE "prod",
                   !.task = IF env = "development" THEN "launched" ELSE @]
    ELSE b

\* App.Start(): Init, then webpack.Init(dev) when the bundler is enabled and,
\* in development, the bundler task is launched in the background.  A panic
\* of Init ends Start before the bundler is touched.
Start(ok) ==
    /\ InitBody(ok)
    /\ phase' = IF ok THEN "Serving" ELSE "Panicked"
    /\ bundler' = IF ok
                  THEN StartBundler(opts.env, opts.webpackEnabled, bundler)
                  ELSE bundler
    /\ UNCHANGED <<environ, opts, log, middleware, routers, reqs,
                   contexts>>

\* What cmd.Start() can return: nil, an error that is exec.ErrNotFound (npm
\* is not on the PATH), or another error.
StartOutcomes == {"ok", "notfound", "failed"}

\* the missing executable is not reported
StartErrorLogNever(outcome) == <<>>

\* Lines 41-43: only exec.ErrNotFound is logged, with logger.Errorf.
StartErrorLog(outcome) ==
    IF outcome = "notfound" THEN <<LogCall("error")>> ELSE <<>>

\* Lines 35-43 of startWebpack: the command and its output pipe are set up
\* and cmd.Start() is called.  When it fails no process exists and os/exec
\* has closed both ends of the pipe.
TaskStart(outcome) ==
    /\ phase \in Live
    /\ bundler.task = "launched"
    /\ bundler' = [bundler EXCEPT !.task = "draining",
                     !.proc = IF outcome = "ok" THEN "running" ELSE outcome]
    /\ log' = log \o StartErrorLog(outcome)
    /\ UNCHANGED <<phase, environ, opts, tmplEngine, middleware, routers,
                   muxRouter, reqs, contexts>>

\* The bundler process writes a line to its output, or exits.
ProcOutput ==
    /\ bundler.proc = "running"
    /\ bundler.written < MaxLines
    /\ bundler' = [bundler EXCEPT !.written = @ + 1, !.pending = @ + 1]
    /\ UNCHANGED <<phase, environ, opts, log, tmplEngine, middleware, routers,
                   muxRouter, reqs, contexts>>

ProcExit ==
    /\ bundler.proc = "running"
    /\ bundler' = [bundler EXCEPT !.proc = "exited"]
    /\ UNCHANGED <<phase, environ, opts, log, tmplEngine, middleware, routers,
                   muxRouter, reqs, contexts>>

\* Lines 44-47: scanner.Scan() returns a line, which is logged, or returns
\* false at the end of the output or on a closed pipe; it blocks while the
\* process runs and has written nothing more.
TaskScan ==
    /\ phase \in Live
    /\ bundler.task = "draining"
    /\ bundler.pending > 0 \/ bundler.proc # "running"
    /\ IF bundler.pending > 0
       THEN /\ bundler' = [bundler EXCEPT !.pending = @ - 1]
            /\ log' = Append(log, LogCall("info"))
       ELSE /\ bundler' = [bundler EXCEPT !.task = "waiting"]
            /\ log' = log
    /\ UNCHANGED <<phase, environ, opts, tmplEngine, middleware, routers,
                   muxRouter, reqs, contexts>>

\* Line 48: cmd.Wait(), whose error is dropped; startWebpack returns.
TaskWait ==
    /\ phase \in Live
    /\ bundler.task = "waiting"
    /\ bundler' = [bundler EXCEPT !.task = "exited"]
    /\ UNCHANGED <<phase, environ, opts, log, tmplEngine, middleware, routers,
                   muxRouter, reqs, contexts>>

\* the goroutine running startWebpack
Task ==
    \/ \E outcome \in StartOutcomes : TaskStart(outcome)
    \/ TaskScan
    \/ TaskWait

----------------------------------------------------------------------------
(* Serving a request                                                       *)

\* App.ServeHTTP: the entry point hands the request to the path router.  A
\* request that matches a route registered by HandleMethod starts an
\* invocation of that route's generated function; the static route and the
\* router's 404 answer on their own.
ServeHTTP(i, method, path) ==
    /\ phase \in Live
    /\ reqs[i].pc = "idle"
    /\ \A j \in 1..(i - 1) : reqs[j].pc # "idle"
    /\ LET k == Match(muxRouter, method, path)
           r == [NoRequest EXCEPT !.method = method, !.path = path]
       IN  reqs' = [reqs EXCEPT ![i] =
             IF k = 0
             THEN [r EXCEPT !.pc = "done", !.res = WriteHeader(@, 404)]
             ELSE IF muxRouter[k].handler = StaticHandler
             THEN [r EXCEPT !.pc = "done", !.handler = StaticHandler,
                            !.res = WriteHeader(@, 200)]
             ELSE [r EXCEPT !.pc = "context", !.handler = muxRouter[k].handler]]
    /\ UNCHANGED <<phase, environ, opts, log, tmplEngine, middleware, routers,
                   muxRouter, bundler,
                   contexts>>

\* NewDefaultContext(): a Context object of its own for the invocation
\* that calls it.
NewDefaultContext(i) == Ref(i)

\* a session that is not bound to the request and the response
getSessionUnbound(res, req, store) ==
    [gSession |-> store.kind, res |-> 0, req |-> 0]

\* App.getSession(res, req): the store's session wrapped with the request
\* and the response.
getSession(res, req, store) ==
    [gSession |-> store.kind, res |-> res, req |-> req]

\* the Context objects that the invocations in `live` hold
Referenced(cs, rq, live) ==
    LET keep == {rq[j].ctx : j \in live} \cap DOMAIN cs
    IN  [r \in keep |-> cs[r]]

\* the assignment the other way round: the application is given the engine
\* of the new Context, which has none
AssignEngineReversed(eng) == [eng EXCEPT !.state = "uninit"]

\* ctx.tmplEngine = app.tmplEngine: the Context is given the application's
\* template engine; the application keeps it.
AssignEngine(eng) == eng

\* Lines 146-156 of the generated function: the Context is built; the
\* session comes from opts.sessionStore.Get, whose error is dropped.  A
\* store supplied through the options is user code and may panic; the panic
\* guard is not installed yet, so the panic leaves the generated function.
BuildContext(i, storePanics) ==
    /\ reqs[i].pc = "context"
    /\ storePanics => opts.sessionStore.kind = "custom"
    /\ LET ctx == NewDefaultContext(i)
           built == [res |-> i, req |-> i,
                     cookies |-> [res |-> i, req |-> i],
                     session |-> getSession(i, i, opts.sessionStore)]
       IN  IF storePanics
           THEN /\ reqs' = [reqs EXCEPT ![i].pc = "escaped"]
                /\ contexts' = contexts
                /\ tmplEngine' = tmplEngine
           ELSE /\ reqs' = [reqs EXCEPT ![i].pc = "guarded", ![i].ctx = ctx]
                /\ contexts' = [r \in DOMAIN contexts \cup {ctx} |->
                                   IF r = ctx THEN built ELSE contexts[r]]
                /\ tmplEngine' = AssignEngine(tmplEngine)
    /\ UNCHANGED <<phase, environ, opts, log, middleware, routers,
                   muxRouter, bundler>>

\* the route handler called without the middleware
ComposedChainBare(ms, h) == <<>>

\* the chain composed without regard to the skip rules
ComposedChainNoSkips(ms, h) == handle([ms EXCEPT !.skips = {}], h)

\* the wrappers applied in registration order, the last one outermost
ComposedChainInside(ms, h) ==
    LET c == handle(ms, h)
    IN  [k \in 1..Len(c) |-> c[Len(c) + 1 - k]]

\* h := app.middleware.handle(routeHandler)
ComposedChain(ms, h) == handle(ms, h)

\* Lines 172-173: the chain is composed from the current middleware stack
\* and called.  It returns (nil or an error) or panics.
RunChain(i, beh) ==
    /\ reqs[i].pc = "guarded"
    /\ beh \in HandlerBehaviours(reqs[i].handler)
    /\ LET run == Invoke(ComposedChain(middleware, reqs[i].handler),
                         reqs[i].handler, beh,
                         [trace |-> <<>>, res |-> reqs[i].res,
                          out |-> NilResult])
       IN  reqs' = [reqs EXCEPT ![i] =
             [@ EXCEPT !.pc = IF run.out.kind = "panic" THEN "panicking"
                              ELSE "returned",
                       !.beh = beh, !.trace = run.trace, !.res = run.res,
                       !.chainRes = run.res,
                       !.saw = contexts[reqs[i].ctx]]]
    /\ UNCHANGED <<phase, environ, opts, log, tmplEngine, middleware, routers,
                   muxRouter, bundler,
                   contexts>>

\* the test of the returned error left out
ChainFailedAlways(result) == TRUE

\* if err != nil
ChainFailed(result) == result.kind = "err"

\* Lines 175-177: a returned error is handed to HandleError.
CheckErr(i) ==
    /\ reqs[i].pc = "returned"
    /\ reqs' = [reqs EXCEPT ![i] =
         IF ChainFailed(reqs[i].beh.result)
         THEN [@ EXCEPT !.pc = "deferred",
                        !.res = HandleError(opts.env, @,
                                            reqs[i].beh.result.val.text),
                        !.heCalls = Append(@, reqs[i].beh.result.val.text)]
         ELSE [@ EXCEPT !.pc = "deferred"]]
    /\ UNCHANGED <<phase, environ, opts, log, tmplEngine, middleware, routers,
                   muxRouter, bundler,
                   contexts>>

\* Lines 158-171: the deferred panic guard.  recover() returns the panic
\* value when the chain panicked; it is normalised to an error and handed to
\* HandleError.  On a normal return recover() is nil and nothing happens.
Guard(i) ==
    /\ reqs[i].pc \in {"deferred", "panicking"}
    /\ reqs' = [reqs EXCEPT ![i] =
         IF reqs[i].pc = "panicking"
         THEN LET e == Normalize(reqs[i].beh.result.val)
              IN  [@ EXCEPT !.pc = "done", !.ctx = NoRef,
                            !.res = HandleError(opts.env, @, e),
                            !.heCalls = Append(@, e)]
         ELSE [@ EXCEPT !.pc = "done", !.ctx = NoRef]]
    /\ contexts' = Referenced(contexts, reqs, (1..MaxReq) \ {i})
    /\ UNCHANGED <<phase, environ, opts, log, tmplEngine, middleware, routers,
                   muxRouter, bundler>>

\* The server is done with a finished request; its slot serves the next one.
Release(i) ==
    /\ reqs[i].pc \in {"done", "escaped"}
    /\ \A j \in (i + 1)..MaxReq : reqs[j].pc = "idle"
    /\ reqs' = [reqs EXCEPT ![i] = NoRequest]
    /\ UNCHANGED <<phase, environ, opts, log, tmplEngine, middleware, routers,
                   muxRouter, bundler,
                   contexts>>

Step(i) ==
    \/ \E storePanics \in BOOLEAN : BuildContext(i, storePanics)
    \/ \E beh \in Behaviours : RunChain(i, beh)
    \/ CheckErr(i)
    \/ Guard(i)
    \/ Release(i)

----------------------------------------------------------------------------
(* Specifications                                                          *)

Index == Handler("app", "index")
Show  == Handler("app", "show")
Boom  == Handler("app", "boom")

AppRouteCount ==
    Cardinality({k \in 1..Len(muxRouter) : muxRouter[k].handler.owner = "app"})

NoRequests == [i \in 1..MaxReq |-> NoRequest]

\* No bundler: webpack not initialised, no task, no process, no output.
NoBundler ==
    [webpack |-> "no", task |-> "none", proc |-> "none", written |-> 0,
     pending |-> 0]

\* the n-th sub-router: one route, GET /sub/n, to a handler of its own
SubRouter(n) ==
    <<Route({"GET"}, <<"sub", n>>, Handler("router", "index"))>>

\* Before NewApp: nothing exists but the process environment.
Unconfigured ==
    /\ phase = "Unconfigured"
    /\ environ \in {"", "s3cret"}
    /\ opts = [env |-> "", sessionStore |-> NoStore, webpackEnabled |-> FALSE]
    /\ log = <<>>
    /\ tmplEngine = [state |-> "uninit", inits |-> 0]
    /\ middleware = [stack |-> <<>>, skips |-> {}]
    /\ routers = <<>>
    /\ muxRouter = <<>>
    /\ bundler = NoBundler
    /\ reqs = NoRequests
    /\ contexts = NoContexts

\* The application from construction to serving: one request at a time.
Next ==
    \/ \E env \in Envs, store \in {NoStore, CustomStore}, wp \in BOOLEAN :
           NewApp(env, store, wp)
    \/ \E t \in {<<<<"index">>, Index>>, <<<<"show">>, Show>>} :
           AppRouteCount < MaxRoutes /\ Get(t[1], t[2])
    \/ Len(routers) < MaxRouters /\ AttachRouter(SubRouter(Len(routers) + 1))
    \/ \E ok \in BOOLEAN : Init(ok)
    \/ \E ok \in BOOLEAN : Start(ok)
    \/ \E path \in {<<"index">>, <<"show">>} : ServeHTTP(1, "GET", path)
    \/ Step(1)

Spec == Unconfigured /\ [][Next]_vars

\* A started application with one route, GET /boom, behind the middleware
\* 1..NumMw, serving up to MaxReq requests at the same time.
ServingBoom ==
    /\ phase = "Serving"
    /\ environ = "s3cret"
    /\ \E env \in Envs, store \in {CookieStore("s3cret"), CustomStore} :
           opts = [env |-> env, sessionStore |-> store,
                   webpackEnabled |-> FALSE]
    /\ log = <<>>
    /\ tmplEngine = [state |-> "ready", inits |-> 1]
    /\ middleware = [stack |-> [m \in 1..NumMw |-> m], skips |-> {}]
    /\ routers = <<>>
    /\ muxRouter = <<StaticRoute, Route({"GET"}, <<"boom">>, Boom)>>
    /\ bundler = NoBundler
    /\ reqs = NoRequests
    /\ contexts = NoContexts

NextRequest ==
    \/ \E i \in 1..MaxReq : ServeHTTP(i, "GET", <<"boom">>)
    \/ \E i \in 1..MaxReq : Step(i)

SpecRequest == ServingBoom /\ [][NextRequest]_vars

\* A constructed application on which middleware, skip rules and the routes
\* GET /index and GET /show are registered in any order, between requests
\* and while one is served.
ConfiguredApp ==
    /\ phase = "Configured"
    /\ environ = "s3cret"
    /\ opts = [env |-> "development", sessionStore |-> CookieStore("s3cret"),
               webpackEnabled |-> FALSE]
    /\ log = <<>>
    /\ tmplEngine = [state |-> "uninit", inits |-> 0]
    /\ middleware = [stack |-> <<>>, skips |-> {}]
    /\ routers = <<>>
    /\ muxRouter = <<StaticRoute>>
    /\ bundler = NoBundler
    /\ reqs = NoRequests
    /\ contexts = NoContexts

NextChain ==
    \/ \E mws \in {<<m>> : m \in Mws} \cup {<<m, n>> : m, n \in Mws} :
           Len(middleware.stack) + Len(mws) <= NumMw /\ Use(mws)
    \/ \E m \in Mws, h \in {Index, Show} :
           Cardinality(middleware.skips) < MaxSkips /\ Skip(m, h)
    \/ \E t \in {<<<<"index">>, Index>>, <<<<"show">>, Show>>} :
           AppRouteCount < MaxRoutes /\ Get(t[1], t[2])
    \/ \E path \in {<<"index">>, <<"show">>} : ServeHTTP(1, "GET", path)
    \/ Step(1)

SpecChain == ConfiguredApp /\ [][NextChain]_vars

\* The base paths resources are registered at, and the requests sent.
BasePaths == {<<"a">>, <<"b">>, <<"a", "b">>, <<"a", "">>, <<"public">>}
Resources == {"r1", "r2"}
Methods   == {"GET", "POST", "PUT", "DELETE"}
RequestPaths ==
    {<<"a">>, <<"b">>, <<"a", "b">>, <<"a", "">>, <<"a", "42">>,
     <<"b", "42">>, <<"a", "b", "42">>, <<"public">>, <<"public", "42">>}

\* the (base path, resource) pairs Resource was called with
Bases ==
    {<<muxRouter[k].path, muxRouter[k].handler.owner>> :
        k \in {j \in 1..Len(muxRouter) : muxRouter[j].handler.fn = "List"}}

\* A constructed application on which resources are registered at different
\* base paths, serving one request at a time.
NextResource ==
    \/ \E path \in BasePaths, r \in Resources :
           /\ Cardinality(Bases) < MaxResources
           /\ \A b \in Bases : b[1] # path
           /\ Resource(path, r)
    \/ \E method \in Methods, path \in RequestPaths :
           ServeHTTP(1, method, path)
    \/ Step(1)

SpecResource == ConfiguredApp /\ [][NextResource]_vars

\* A constructed application with the route GET /index, in any environment,
\* with the bundler option on or off.
ReadyToStart ==
    /\ phase = "Configured"
    /\ environ = "s3cret"
    /\ \E env \in Envs, wp \in BOOLEAN :
           opts = [env |-> env, sessionStore |-> CookieStore("s3cret"),
                   webpackEnabled |-> wp]
    /\ log = <<>>
    /\ tmplEngine = [state |-> "uninit", inits |-> 0]
    /\ middleware = [stack |-> <<>>, skips |-> {}]
    /\ routers = <<>>
    /\ muxRouter = <<StaticRoute, Route({"GET"}, <<"index">>, Index)>>
    /\ bundler = NoBundler
    /\ reqs = NoRequests
    /\ contexts = NoContexts

\* Start is called once; the bundler task, the bundler process and requests
\* run side by side.
NextBundler ==
    \/ \E ok \in BOOLEAN : phase = "Configured" /\ Start(ok)
    \/ Task
    \/ ProcOutput
    \/ ProcExit
    \/ ServeHTTP(1, "GET", <<"index">>)
    \/ Step(1)

\* The scheduler runs the bundler goroutine and the request goroutine
\* whenever they can take a step; nothing makes the bundler process write
\* or exit.
SpecBundler ==
    /\ ReadyToStart
    /\ [][NextBundler]_vars
    /\ WF_vars(Task)
    /\ WF_vars(Step(1))

\* The method lists HandleMethod is called with: any list of the five
\* methods, the empty one included.
MethodLists == SUBSET {"GET", "POST", "PUT", "DELETE", "PATCH"}

\* A constructed application whose whole binder interface is called in any
\* order.
NextBinder ==
    \/ \E ms \in MethodLists :
           AppRouteCount < MaxRoutes /\ HandleMethod(ms, <<"index">>, Index)
    \/ AppRouteCount < MaxRoutes /\ Get(<<"index">>, Index)
    \/ AppRouteCount < MaxRoutes /\ Post(<<"index">>, Index)
    \/ AppRouteCount < MaxRoutes /\ Put(<<"index">>, Index)
    \/ AppRouteCount < MaxRoutes /\ Delete(<<"index">>, Index)
    \/ AppRouteCount < MaxRoutes /\ Patch(<<"index">>, Index)
    \/ AppRouteCount < MaxRoutes /\ AppAny(<<"index">>, Index)
    \/ \E r \in Resources : Bases = {} /\ Resource(<<"a">>, r)

SpecBinder == ConfiguredApp /\ [][NextBinder]_vars

\* An application with the route GET /index on which Init is called and
\* middleware and skip rules are added at any time, before and after the
\* route is registered and between requests.  Requests are served once Init
\* has run, one after the other; the record of the first is kept while the
\* second is served.
NextLate ==
    \/ Len(middleware.stack) < NumMw
           /\ Use(<<Len(middleware.stack) + 1>>)
    \/ \E m \in Mws :
           Cardinality(middleware.skips) < MaxSkips /\ Skip(m, Index)
    \/ AppRouteCount = 0 /\ Get(<<"index">>, Index)
    \/ Init(TRUE)
    \/ phase = "Initialized" /\ ServeHTTP(1, "GET", <<"index">>)
    \/ reqs[1].pc = "done" /\ ServeHTTP(2, "GET", <<"index">>)
    \/ \E i \in 1..2 : Step(i)

SpecLate == ConfiguredApp /\ [][NextLate]_vars

----------------------------------------------------------------------------
(* Claims about one request (SpecRequest)                                  *)

Slots == 1..MaxReq

\* request i is handed to the path router in this step
Dispatched(i) == reqs[i].pc = "idle" /\ reqs'[i].pc # "idle"

\* an invocation of a generated route function that has returned
Finished(i) == reqs[i].pc = "done" /\ reqs[i].handler.owner = "app"

\* C1: a request whose chain returns a non-nil error receives status 500
\* exactly once: HandleError runs once and nothing else writes a status,
\* also when the handler wrote to the response before returning the error.
\* (The claim as stated; the code violates it.)
C1_ErrorGives500Once ==
    \A i \in Slots :
        (Finished(i) /\ reqs[i].beh.result.kind = "err")
            => /\ reqs[i].res.status = 500
               /\ Len(reqs[i].heCalls) = 1
               /\ CountHeaderCalls(reqs[i].res.calls) = 1

\* C2: a handler that panics with a value is answered exactly like a
\* handler that returns an error with the value's text: same status, same
\* number of HandleError calls, same diagnostic body.  (The claim as
\* stated; the code violates it.)
C2_PanicLikeError ==
    \A i, j \in Slots :
        (/\ Finished(i) /\ Finished(j)
         /\ reqs[i].beh.result.kind = "panic"
         /\ reqs[j].beh.result.kind = "err"
         /\ reqs[j].beh.result.val.text = TextOf(reqs[i].beh.result.val)
         /\ reqs[i].beh.writes = reqs[j].beh.writes)
            => /\ reqs[i].res.status = reqs[j].res.status
               /\ Len(reqs[i].heCalls) = Len(reqs[j].heCalls)
               /\ reqs[i].res.body = reqs[j].res.body

\* C16: the panic guard hands HandleError, once for every panic value, an
\* error whose message is the error's own message, exactly the string, or
\* exactly the default text form of any other value.  (The claim as stated;
\* the code violates it.)
C16_PanicNormalised ==
    \A i \in Slots :
        (Finished(i) /\ reqs[i].beh.result.kind = "panic")
            => reqs[i].heCalls = <<TextOf(reqs[i].beh.result.val)>>

\* C5: no panic raised while a request is processed leaves the generated
\* function.  (The claim as stated; the code violates it.)
C5_NoPanicEscapes ==
    \A i \in Slots : reqs[i].pc # "escaped"

\* the calls of a response that write status 500
Calls500(res) ==
    {k \in 1..Len(res.calls) :
        res.calls[k].op = "WriteHeader" /\ res.calls[k].code = 500}

\* the texts of the diagnostic pages in a response body, in order
DiagnosticsOf(res) ==
    LET d == SelectSeq(res.body, LAMBDA b : b.kind = "diagnostic")
    IN  [k \in 1..Len(d) |-> d[k].text]

\* C6: every HandleError call writes status 500 (the status the client gets
\* when nothing was written before); it renders the diagnostic body exactly
\* when the environment is "development", and nothing in any other.
C6_HandleErrorByEnvironment ==
    \A i \in Slots :
        reqs[i].handler.owner = "app" =>
            /\ Cardinality(Calls500(reqs[i].res)) = Len(reqs[i].heCalls)
            /\ (reqs[i].heCalls # <<>> /\ reqs[i].chainRes.status = 0)
                   => reqs[i].res.status = 500
            /\ DiagnosticsOf(reqs[i].res) =
                   IF opts.env = "development" THEN reqs[i].heCalls ELSE <<>>
            /\ opts.env # "development"
                   => reqs[i].res.body = reqs[i].chainRes.body

C6_Witness ==
    /\ opts.env = "staging"
    /\ \E i \in Slots :
           /\ Finished(i)
           /\ Len(reqs[i].heCalls) = 1
           /\ reqs[i].res.status = 500
           /\ reqs[i].res.body = <<>>

\* C7: when the chain returns nil without panicking, HandleError is never
\* called and the generated function writes nothing: the response is what
\* the handler and the middleware left.
C7_SuccessWritesNothing ==
    \A i \in Slots :
        (/\ reqs[i].pc \in {"deferred", "done"}
         /\ reqs[i].handler.owner = "app"
         /\ reqs[i].beh.result.kind = "nil")
            => /\ reqs[i].heCalls = <<>>
               /\ reqs[i].res = reqs[i].chainRes

C7_Witness ==
    \E i \in Slots :
        /\ Finished(i)
        /\ reqs[i].beh.result.kind = "nil"
        /\ reqs[i].beh.writes
        /\ reqs[i].res.status = 200
        /\ Len(reqs[i].trace) = 2 * NumMw + 1

----------------------------------------------------------------------------
(* Claims about the middleware chain (SpecChain)                           *)

\* pre-work of ms[1..n] in order, the handler, post-work in reverse order
ExpectedTrace(ms) ==
    LET n == Len(ms)
    IN  [k \in 1..(2 * n + 1) |->
            IF k <= n THEN Event("pre", ms[k])
            ELSE IF k = n + 1 THEN Event("handler", 0)
            ELSE Event("post", ms[2 * n + 2 - k])]

\* the chain of invocation i runs in this step and returns nil
ChainRuns(i) ==
    /\ reqs[i].pc = "guarded"
    /\ reqs'[i].pc = "returned"
    /\ reqs'[i].beh.result.kind = "nil"

\* C3: with middleware M1..Mn registered in that order and no skip rules, a
\* successful request runs M1-pre, ..., Mn-pre, the handler once, Mn-post,
\* ..., M1-post.
C3_NestedWrapperOrder ==
    [][\A i \in Slots :
          (ChainRuns(i) /\ middleware.skips = {})
              => reqs'[i].trace = ExpectedTrace(middleware.stack)]_vars

C3_Witness ==
    \E i \in Slots :
        /\ Finished(i)
        /\ middleware.skips = {}
        /\ Len(middleware.stack) = NumMw
        /\ middleware.stack[1] # middleware.stack[NumMw]
        /\ reqs[i].trace = ExpectedTrace(middleware.stack)

\* the middleware whose events of the given kind are in a trace, in order
Ran(trace, ev) ==
    LET e == SelectSeq(trace, LAMBDA x : x.ev = ev)
    IN  [k \in 1..Len(e) |-> e[k].who]

Reversed(q) == [k \in 1..Len(q) |-> q[Len(q) + 1 - k]]

\* C4: a middleware with a skip rule for the route's handler never runs for
\* it, and the others run in their registration order.
C4_SkippedNeverRuns ==
    [][\A i \in Slots :
          ChainRuns(i) =>
              LET h    == reqs[i].handler
                  kept == SelectSeq(middleware.stack,
                                    LAMBDA m : <<m, h>> \notin middleware.skips)
              IN  /\ \A k \in 1..Len(reqs'[i].trace) :
                         <<reqs'[i].trace[k].who, h>> \notin middleware.skips
                  /\ Ran(reqs'[i].trace, "pre") = kept
                  /\ Ran(reqs'[i].trace, "post") = Reversed(kept)
                  /\ Len(Ran(reqs'[i].trace, "handler")) = 1]_vars

C4_Witness ==
    \E i \in Slots :
        /\ Finished(i)
        /\ middleware.stack = <<1, 2>>
        /\ middleware.skips = {<<1, reqs[i].handler>>}
        /\ reqs[i].trace = <<Event("pre", 2), Event("handler", 0),
                             Event("post", 2)>>

----------------------------------------------------------------------------
(* Claims about the bundler (SpecBundler)                                  *)

\* Start returns in this step
StartReturns == phase = "Configured" /\ phase' = "Serving"

\* C14: no bundler activity before Init has completed (sub-routers
\* materialised, template engine initialised); the bundler task exists only
\* in development with the bundler option on; and when Start returns the
\* task has only been launched: Start waited neither for output nor for the
\* process.
C14_StartOrder ==
    /\ [](bundler # NoBundler
             => tmplEngine.state = "ready" /\ tmplEngine.inits > 0)
    /\ [](bundler.task # "none"
             => opts.env = "development" /\ opts.webpackEnabled)
    /\ [][StartReturns
             => /\ muxRouter' = Materialised(muxRouter, routers)
                /\ tmplEngine'.state = "ready"
                /\ bundler'.task =
                      IF opts.env = "development" /\ opts.webpackEnabled
                      THEN "launched" ELSE "none"
                /\ bundler'.proc = "none"]_vars

C14_Witness ==
    /\ phase = "Serving"
    /\ bundler.task = "launched"
    /\ bundler.webpack = "dev"
    /\ tmplEngine.state = "ready"

\* C15: when npm cannot be found the bundler task logs an error, leaves the
\* application running, and ends; requests are served to the end.
C15_MissingBundler ==
    /\ [](bundler.proc = "notfound"
             => /\ phase = "Serving"
                /\ \E k \in 1..Len(log) : log[k] = LogCall("error"))
    /\ (bundler.proc = "notfound") ~> (bundler.task = "exited")
    /\ (bundler.proc = "notfound" /\ reqs[1].pc = "context")
           ~> (reqs[1].pc = "done" /\ reqs[1].res.status = 200)

C15_Witness ==
    /\ bundler.proc = "notfound"
    /\ bundler.task = "exited"
    /\ phase = "Serving"
    /\ reqs[1].pc = "done" /\ reqs[1].res.status = 200

----------------------------------------------------------------------------
(* Claims about the binder interface (SpecBinder)                          *)

\* C13: after any sequence of calls of HandleMethod (with any method list),
\* Get, Post, Put, Delete, Patch, Any and Resource, every route they
\* registered has at least one HTTP method bound.  (The claim as stated; the
\* code violates it.)
C13_RouteHasMethod ==
    \A k \in 1..Len(muxRouter) :
        muxRouter[k].handler # StaticHandler => muxRouter[k].methods # {}

----------------------------------------------------------------------------
(* Claims about late registration (SpecLate)                               *)

\* C12: the chain of a route is fixed when the route is wrapped: once Init
\* has run, every invocation of the route runs the same sequence of
\* middleware, whatever is registered between the requests.  (The claim as
\* stated; the code composes the chain on every request.)
C12_ChainFixedAtWrap ==
    \A i, j \in Slots :
        (Finished(i) /\ Finished(j) /\ reqs[i].handler = reqs[j].handler)
            => reqs[i].trace = reqs[j].trace

\* a step of the handling of a request: dispatch, the generated function,
\* or the release of the finished request
RequestStep == \E i \in Slots : reqs'[i] # reqs[i]

\* C17: handling a request changes nothing of the application's shared
\* state: the middleware stack, the sub-routers, the route table, the
\* options and the template engine are after every request step what they
\* were before it.
C17_RequestFrame ==
    [][RequestStep
          => UNCHANGED <<middleware, routers, muxRouter, opts, tmplEngine>>]_vars

C17_Witness ==
    /\ reqs[1].pc = "done" /\ reqs[1].res.status = 200
    /\ reqs[2].pc = "returned"
    /\ Len(middleware.stack) = NumMw
    /\ tmplEngine.state = "ready"
    /\ Len(muxRouter) = 2

\* the middleware of the stack that did not run for invocation i, although
\* no skip rule names them for its handler: they were added after it
AddedSince(i) ==
    {m \in {middleware.stack[k] : k \in 1..Len(middleware.stack)} :
        /\ <<m, reqs[i].handler>> \notin middleware.skips
        /\ \A k \in 1..Len(reqs[i].trace) : reqs[i].trace[k].who # m}

\* the stack without the middleware skipped for h
Kept(h) ==
    SelectSeq(middleware.stack, LAMBDA m : <<m, h>> \notin middleware.skips)

\* C19: the chain is composed from the current stack on each invocation: a
\* middleware added after the route was registered and served, also after
\* Init, wraps the handler on the next request, in the place it would have
\* had it been added before the route.
C19_LateMiddlewareWraps ==
    [][(ChainRuns(2) /\ Finished(1) /\ reqs[1].handler = reqs[2].handler)
          => /\ reqs'[2].trace = ExpectedTrace(Kept(reqs[2].handler))
             /\ \A m \in AddedSince(1) :
                    \E k \in 1..Len(reqs'[2].trace) :
                        reqs'[2].trace[k] = Event("pre", m)]_vars

C19_Witness ==
    /\ Finished(1) /\ Finished(2)
    /\ tmplEngine.inits > 0
    /\ reqs[1].trace = <<Event("handler", 0)>>
    /\ reqs[2].trace = ExpectedTrace(<<1, 2>>)

----------------------------------------------------------------------------
(* Claims about the lifecycle (Spec)                                       *)

\* C8: no request is dispatched to a registered route handler unless the
\* template engine was initialised successfully, and the serving state is
\* reached only with an initialised engine.  (The claim as stated; the code
\* violates it.)
C8_NoDispatchBeforeInit ==
    /\ [](phase = "Serving" => tmplEngine.state = "ready")
    /\ [][\A i \in Slots :
             (Dispatched(i) /\ reqs'[i].handler.owner = "app")
                 => tmplEngine.state = "ready"]_vars

\* C20: NewApp called with a session store in the options succeeds in every
\* environment, with or without SESSION_SECRET, logs nothing and keeps that
\* store; and whenever NewApp has returned the application has a session
\* store.
C20_SuppliedStore ==
    /\ [](phase \in Live \cup {"Panicked"} => opts.sessionStore.kind # "nil")
    /\ [][\A env \in Envs, wp \in BOOLEAN :
             NewApp(env, CustomStore, wp)
                 => /\ phase' = "Configured"
                    /\ log' = log
                    /\ opts'.sessionStore = CustomStore]_vars

C20_Witness ==
    /\ phase = "Configured"
    /\ environ = ""
    /\ opts.env = "production"
    /\ opts.sessionStore = CustomStore
    /\ log = <<>>

\* the number of times a route is registered with the path router
Registrations(route) ==
    Cardinality({k \in 1..Len(muxRouter) : muxRouter[k] = route})

\* C18: whatever Init and Start calls are made, the template engine is
\* initialised once and no route of an attached sub-router is registered
\* with the path router more than once.  (The claim as stated; the code
\* violates it.)
C18_InitialisedOnce ==
    /\ tmplEngine.inits <= 1
    /\ \A n \in 1..Len(routers) :
           \A k \in 1..Len(routers[n]) : Registrations(routers[n][k]) <= 1

\* C9 as stated: with no SESSION_SECRET, construction in production fails
\* fast and construction in development succeeds with a warning and the
\* development secret.  (Violated: a store supplied through the options.)
C9_AsStated ==
    (phase # "Unconfigured" /\ environ = "") =>
        /\ opts.env = "production" => phase = "Fatal"
        /\ opts.env = "development" =>
               /\ phase # "Fatal"
               /\ log = <<LogCall("warn")>>
               /\ opts.sessionStore = CookieStore("development-secret")

\* C9, amended: the same when no session store is supplied through the
\* options.  A process that exited takes no further step, so it never
\* reaches the serving state.
C9_MissingSecret ==
    (phase # "Unconfigured" /\ environ = ""
        /\ opts.sessionStore.kind # "custom") =>
        /\ opts.env = "production" =>
               /\ phase = "Fatal"
               /\ log = <<LogCall("fatal")>>
               /\ tmplEngine.inits = 0
               /\ reqs = NoRequests
        /\ opts.env = "development" =>
               /\ phase # "Fatal"
               /\ log = <<LogCall("warn")>>
               /\ opts.sessionStore = CookieStore("development-secret")

C9_Witness ==
    /\ phase = "Fatal"
    /\ environ = ""
    /\ opts.env = "production"
    /\ log = <<LogCall("fatal")>>

----------------------------------------------------------------------------
(* Claims about resources (SpecResource)                                   *)

\* The handler Resource(p, r) binds to a request, if any: List and Create
\* at p, Show, Update and Destroy at p/{id}.
ResourceFn(p, method, path) ==
    IF path = p
    THEN (IF method = "GET" THEN "List"
          ELSE IF method = "POST" THEN "Create" ELSE "")
    ELSE IF /\ Len(path) = Len(Clean(p)) + 1
            /\ SubSeq(path, 1, Len(path) - 1) = Clean(p)
            /\ path[Len(path)] # ""
    THEN (IF method = "GET" THEN "Show"
          ELSE IF method = "PUT" THEN "Update"
          ELSE IF method = "DELETE" THEN "Destroy" ELSE "")
    ELSE ""

\* the route table holds the five routes of Resource(p, r), in a row
HasFiveRoutes(p, r) ==
    \E k \in 1..Len(muxRouter) :
        /\ k + 4 <= Len(muxRouter)
        /\ SubSeq(muxRouter, k, k + 4) =
               << Route({"GET"}, p, Handler(r, "List")),
                  Route({"GET"}, Clean(p) \o <<"{id}">>, Handler(r, "Show")),
                  Route({"POST"}, p, Handler(r, "Create")),
                  Route({"PUT"}, Clean(p) \o <<"{id}">>, Handler(r, "Update")),
                  Route({"DELETE"}, Clean(p) \o <<"{id}">>,
                        Handler(r, "Destroy")) >>

\* C10 as stated: a request that matches one of the five (method, path)
\* pairs of a registered resource is handled by that resource's handler.
\* (Violated: an earlier route that matches the same request wins.)
C10_AsStated ==
    [][\A i \in Slots : \A b \in Bases :
          (Dispatched(i)
              /\ ResourceFn(b[1], reqs'[i].method, reqs'[i].path) # "")
            => reqs'[i].handler =
                   Handler(b[2],
                           ResourceFn(b[1], reqs'[i].method, reqs'[i].path))]_vars

\* base path p stands clear of base path q: neither is directly below the
\* other and they do not differ by a trailing slash only
Clear(p, q) ==
    /\ Clean(p) # Clean(q)
    /\ \A x \in {"a", "b", "42", "public"} :
           p # Clean(q) \o <<x>> /\ q # Clean(p) \o <<x>>

\* C10, amended: each Resource call registers its five routes; a request
\* that matches one of a resource's five pairs is handled by that
\* resource's handler provided the resource's base path is not under
\* /public and stands clear of every other resource's base path.
C10_ResourceDispatch ==
    /\ [](/\ \A b \in Bases : HasFiveRoutes(b[1], b[2])
          /\ Len(muxRouter) = 1 + 5 * Cardinality(Bases))
    /\ [][\A i \in Slots : \A b \in Bases :
             (/\ Dispatched(i)
              /\ ResourceFn(b[1], reqs'[i].method, reqs'[i].path) # ""
              /\ b[1][1] # "public"
              /\ \A c \in Bases : c[1] # b[1] => Clear(b[1], c[1]))
               => reqs'[i].handler =
                      Handler(b[2], ResourceFn(b[1], reqs'[i].method,
                                               reqs'[i].path))]_vars

C10_Witness ==
    /\ Bases = {<<<<"a">>, "r1">>, <<<<"b">>, "r2">>}
    /\ \E i \in Slots :
           /\ reqs[i].pc = "done"
           /\ reqs[i].trace = <<Event("handler", 0)>>
           /\ reqs[i].method = "PUT"
           /\ reqs[i].path = <<"b", "42">>
           /\ reqs[i].handler = Handler("r2", "Update")

----------------------------------------------------------------------------
(* Claims about the Context (SpecRequest)                                  *)

\* invocation i has built its Context and has not returned
HoldsContext(i) ==
    reqs[i].pc \in {"guarded", "returned", "panicking", "deferred"}

BoundTo(c, i) ==
    /\ c.res = i /\ c.req = i
    /\ c.cookies = [res |-> i, req |-> i]
    /\ c.session.res = i /\ c.session.req = i

\* C11: under every interleaving each invocation has a Context, Cookies and
\* Session of its own, bound to its own request and response, before the
\* chain runs; the chain sees that Context; no Context is held by two
\* invocations and none is kept once the invocation has returned.
C11_ContextPerRequest ==
    /\ \A i \in Slots :
           HoldsContext(i) =>
               /\ reqs[i].ctx \in DOMAIN contexts
               /\ BoundTo(contexts[reqs[i].ctx], i)
    /\ \A i \in Slots :
           (reqs[i].handler.owner = "app"
               /\ reqs[i].pc \in {"returned", "panicking", "deferred", "done"})
             => BoundTo(reqs[i].saw, i)
    /\ \A i, j \in Slots :
           (i # j /\ HoldsContext(i) /\ HoldsContext(j))
               => reqs[i].ctx # reqs[j].ctx
    /\ DOMAIN contexts = {reqs[i].ctx : i \in {j \in Slots : HoldsContext(j)}}

C11_Witness ==
    /\ reqs[1].pc = "returned" /\ BoundTo(reqs[1].saw, 1)
    /\ reqs[2].pc = "guarded" /\ BoundTo(contexts[reqs[2].ctx], 2)

====
